---- MODULE Spec2Model ----
(***************************************************************************)
(* The Puppeteer job orchestrator of src/app/api/sessions/upload/route.ts. *)
(*                                                                         *)
(* The file holds two copies of the manager: the first (lines 59-559) and  *)
(* a later revision (lines 561-1076).  startJoinGroups, startPostAndComment*)
(* and stopAll have the same control flow in both; startCreateSessions     *)
(* differs, so both are modelled (kinds "create" and "create2").           *)
(*                                                                         *)
(* Scheduling is Node's: one thread, and the code between two awaits runs  *)
(* without interruption.  Every action below is therefore the resolution   *)
(* of one await (or a call's entry) followed by everything the code does   *)
(* up to the next await, the continuation of Promise.all included.         *)
(* Outcomes of Puppeteer calls (resolve or reject) are the environment's   *)
(* choice; an operation on a page of a browser that is no longer running   *)
(* can only reject.                                                        *)
(***************************************************************************)
EXTENDS Integers, Sequences, FiniteSets, TLC

\* Bounds of the model: orchestration calls made, and the items and the workers
\* of all calls together (one call may take them all).
MaxJobs == 2
MaxItems == 2
MaxConc == 2
MaxLinks == 2
MaxUrls == 1
MaxLen == 2
\* When only startPostAndComment is called: the urls one session discovers, and
\* the workers of the call.
MaxPostUrls == 2
MaxPostConc == 1

JobIds == 1..MaxJobs
WorkerIds == 1..MaxConc
ItemIdx == 0..(MaxItems - 1)

VARIABLES
    JOBS,      \* the registry: ids of the jobs in the Map (insertion order = id order)
    job,       \* job[j]: the job object and the locals of its orchestration call
    wk,        \* wk[j][k]: where worker k of job j is suspended
    br,        \* br[j][i]: the browser launched for item i of job j
    sa,        \* the stopAll call in flight, if any
    nextJob,   \* number of orchestration calls made so far
    sn         \* a string and what sanitizeName has made of it

vars == <<JOBS, job, wk, br, sa, nextJob, sn>>

----------------------------------------------------------------------------
\* Records

\* A job: the entry of JOBS (browsers, stopRequested), the inputs of its
\* orchestration call (n items, conc workers, names[i+1]: the name of item i,
\* exists[i+1]: item i's session folder is on disk, nlinks group links, gps
\* groupsPerSession; marker: the UI this call's browsers see shows the
\* authenticated marker on every page), the call's locals (index,
\* results) and what the call gave back (call: "awaiting", "returned" or "failed"
\* when it rejected; the summary; retLen, the length of results at the return).
\* claimed is history: the values "const i = index++" has produced, in order.
NoJob ==
    [kind |-> "none", n |-> 0, conc |-> 0, names |-> <<>>, exists |-> <<>>, nlinks |-> 0,
     gps |-> 1, marker |-> FALSE,
     stopRequested |-> FALSE, browsers |-> <<>>, index |-> 0, claimed |-> <<>>,
     results |-> <<>>, call |-> "none", success |-> 0, failed |-> 0, retLen |-> 0]

NewJob(kind, n, conc, exists) ==
    [NoJob EXCEPT !.kind = kind, !.n = n, !.conc = conc, !.exists = exists,
                  !.call = "awaiting"]

\* A worker: the await it is suspended at, its item i, the link or url u it is at,
\* the urls nu it discovered, the attempt att, and sessionResults acc.  A worker
\* whose promise rejected keeps in err the call whose exception left it.
IdleWorker ==
    [pc |-> "idle", i |-> 0, u |-> 0, nu |-> 0, att |-> 0, acc |-> <<>>, err |-> "none"]
DoneWorker == [IdleWorker EXCEPT !.pc = "done"]
Rejected(err) == [IdleWorker EXCEPT !.pc = "rejected", !.err = err]
At(pc, i) == [IdleWorker EXCEPT !.pc = pc, !.i = i]
Goto(w, pc) == [w EXCEPT !.pc = pc]

\* One entry of a results array.  kind "attempt" is the {post, comment} record of
\* attemptPostingWithRetries, which has no ok field (ok then holds post).
Outcome(kind, i, ok) ==
    [kind |-> kind, i |-> i, ok |-> ok, comment |-> FALSE, groups |-> <<>>, summary |-> <<>>]

Push(jr, o) == [jr EXCEPT !.results = Append(@, o)]

RECURSIVE CountOk(_, _)
CountOk(rs, b) ==
    IF rs = <<>> THEN 0
    ELSE (IF Head(rs).kind # "attempt" /\ Head(rs).ok = b THEN 1 ELSE 0) + CountOk(Tail(rs), b)

RECURSIVE Filter(_, _)
Filter(bs, b) ==
    IF bs = <<>> THEN <<>>
    ELSE IF Head(bs) = b THEN Filter(Tail(bs), b) ELSE <<Head(bs)>> \o Filter(Tail(bs), b)

\* br[j][i] is "none" before the launch resolves, "open" after it, "closed" once
\* a close or a kill got through, and "closeFailed" when a close was tried and
\* rejected: the process is then still there.
Running(j, i) == br[j][i] \in {"open", "closeFailed"}

\* The browser's state after close() on it resolved (ok) or rejected.
AfterClose(cur, ok) ==
    IF ok \/ cur = "closed" THEN "closed" ELSE "closeFailed"

\* The outcomes the environment may give an operation on item i's page or browser.
PageOutcomes(j, i) == IF Running(j, i) THEN BOOLEAN ELSE {FALSE}

\* The outcomes of waitForSelector(successSelector) on item i's page.
MarkerOutcomes(j, i) == IF Running(j, i) /\ job[j].marker THEN {TRUE} ELSE PageOutcomes(j, i)

----------------------------------------------------------------------------
\* sanitizeName (lines 86-88): s.replace(/[^a-z0-9_.@-]/ig, '_')

\* A string is a sequence of UTF-16 code units.  The code units of the model: a
\* lower-case and an upper-case letter, a digit, the four punctuation marks of
\* the class, two ASCII characters outside it, and U+017F (LATIN SMALL LETTER
\* LONG S), whose upper case is the ASCII letter S.
Chars == {"a", "A", "0", "_", ".", "@", "-", "/", " ", "U+017F"}
Strings == UNION {[1..n -> Chars] : n \in 0..MaxLen}

IsAscii(ch) == ch # "U+017F"
toUpperCase(ch) == CASE ch = "a" -> "A" [] ch = "U+017F" -> "S" [] OTHER -> ch

\* Canonicalize of a pattern without the u flag and with the i flag: the upper
\* case of the code unit, unless that takes a non-ASCII code unit to an ASCII one.
Canonicalize(ch) ==
    LET cu == toUpperCase(ch) IN IF ~IsAscii(ch) /\ IsAscii(cu) THEN ch ELSE cu

\* The members of the class a-z0-9_.@- among the code units of the model.
ClassRanges == {"a", "0", "_", ".", "@", "-"}

\* The negated class matches ch when no member of the class canonicalizes as ch does.
MatchesNegatedClass(ch) == \A a \in ClassRanges : Canonicalize(a) # Canonicalize(ch)

\* sanitizeName replacing by '/'.
sanitizeName_Slash(s) ==
    [p \in 1..Len(s) |-> IF MatchesNegatedClass(s[p]) THEN "/" ELSE s[p]]

\* The g flag: every match is replaced.
sanitizeName(s) ==
    [p \in 1..Len(s) |-> IF MatchesNegatedClass(s[p]) THEN "_" ELSE s[p]]

\* sn: the input x, the value y after n applications, and the value prev before
\* the last of them.
SnIdle == [x |-> <<>>, prev |-> <<>>, y |-> <<>>, n |-> 0]

\* y = sanitizeName(y), at most twice
Sanitize ==
    /\ sn.n < 2
    /\ sn' = [sn EXCEPT !.prev = sn.y, !.y = sanitizeName(sn.y), !.n = @ + 1]
    /\ UNCHANGED <<JOBS, job, wk, br, sa, nextJob>>

\* Names.  Only which names are equal, and which have the same sanitized form,
\* matters to the code, so a name is a number: names 1 and 2 are "a/" and "a ",
\* different names that sanitizeName both makes "a_"; name v >= 3 is "A" v - 2
\* times, which sanitizeName leaves as it is.
NameOf(v) ==
    IF v = 1 THEN <<"a", "/">>
    ELSE IF v = 2 THEN <<"a", " ">>
    ELSE [p \in 1..(v - 2) |-> "A"]

\* sessionPath of item i (lines 623-624, 726-727, 985-986): the folder
\* sanitizeName(name) of userDir, every call being made for the same user.
ProfileDir(jr, i) == sanitizeName(NameOf(jr.names[i + 1]))

\* Lists of n names: the first is name 1, and the a-th is one of the a + 1 first
\* names, so that a list of two has twice the same name, or two names with the
\* same folder, or two names with different folders.
\* NameLists[n] is the set of the lists of length n.
NameLists ==
    [n \in 0..MaxItems |->
        {nm \in [1..n -> 1..(MaxItems + 1)] :
            \A a \in 1..n : nm[a] <= a + 1 /\ (a = 1 => nm[a] = 1)}]

\* n names with n different folders.
DistinctNames(n) == [a \in 1..n |-> IF a = 1 THEN 1 ELSE a + 1]

----------------------------------------------------------------------------
\* The worker loop of startCreateSessions: the while condition and the claim.

\* ClaimCreate with the cursor read but not advanced.
ClaimCreate_NoIncrement(jr) ==
    IF jr.index < jr.n /\ ~jr.stopRequested
    THEN [jr |-> [jr EXCEPT !.claimed = Append(@, jr.index)], w |-> At("launch", jr.index)]
    ELSE [jr |-> jr, w |-> DoneWorker]

\* ClaimCreate advancing the cursor by two.
ClaimCreate_SkipsOne(jr) ==
    IF jr.index < jr.n /\ ~jr.stopRequested
    THEN [jr |-> [jr EXCEPT !.index = @ + 2, !.claimed = Append(@, jr.index)],
          w |-> At("launch", jr.index)]
    ELSE [jr |-> jr, w |-> DoneWorker]

ClaimCreate(jr) ==
    IF jr.index < jr.n /\ ~jr.stopRequested
    THEN [jr |-> [jr EXCEPT !.index = @ + 1, !.claimed = Append(@, jr.index)],
          w |-> At("launch", jr.index)]
    ELSE [jr |-> jr, w |-> DoneWorker]

\* The worker loop of startJoinGroups and startPostAndComment: the while
\* condition, the claim, and the session folder check, whose "continue" goes
\* round the loop without an await.
\* SessionMissing pushing the bare {session, ok: false} in both workflows.
SessionMissing_NoSummary(jr, i) == Outcome("session", i, FALSE)

SessionMissing(jr, i) ==
    IF jr.kind = "join"
    THEN [Outcome("session", i, FALSE) EXCEPT !.summary = <<0, 1, 1>>]
    ELSE Outcome("session", i, FALSE)

\* ClaimSession with a while condition that does not read the flag.
RECURSIVE ClaimSession_IgnoresStop(_)
ClaimSession_IgnoresStop(jr) ==
    IF jr.index < jr.n
    THEN LET i == jr.index
             claimed == [jr EXCEPT !.index = @ + 1, !.claimed = Append(@, i)]
         IN  IF ~jr.exists[i + 1]
             THEN ClaimSession_IgnoresStop(Push(claimed, SessionMissing(jr, i)))
             ELSE [jr |-> claimed, w |-> At("launch", i)]
    ELSE [jr |-> jr, w |-> DoneWorker]

RECURSIVE ClaimSession(_)
ClaimSession(jr) ==
    IF jr.index < jr.n /\ ~jr.stopRequested
    THEN LET i == jr.index
             claimed == [jr EXCEPT !.index = @ + 1, !.claimed = Append(@, i)]
         IN  IF ~jr.exists[i + 1]
             THEN ClaimSession(Push(claimed, SessionMissing(jr, i)))
             ELSE [jr |-> claimed, w |-> At("launch", i)]
    ELSE [jr |-> jr, w |-> DoneWorker]

\* From the loop head to the next await, for the job's kind.
WorkerLoop(jr) ==
    IF jr.kind \in {"create", "create2"} THEN ClaimCreate(jr) ELSE ClaimSession(jr)

\* "if (job.stopRequested) break;" at the end of the loop body, then the loop head.
AfterItem(jr) ==
    IF jr.stopRequested THEN [jr |-> jr, w |-> DoneWorker] ELSE WorkerLoop(jr)

\* Array.from({length: concurrency}, () => worker()): each worker runs to its first await.
RECURSIVE Spawn(_, _, _)
Spawn(jr, wj, k) ==
    IF k > jr.conc THEN [jr |-> jr, wj |-> wj]
    ELSE LET r == WorkerLoop(jr) IN Spawn(r.jr, [wj EXCEPT ![k] = r.w], k + 1)

AllExited(jr, wj) == \A k \in 1..jr.conc : wj[k].pc = "done"
SomeRejected(jr, wj) == \E k \in 1..jr.conc : wj[k].pc = "rejected"

\* What follows "await Promise.all(workers)": JOBS.delete, the summary, the return.
Return(jr) ==
    [jr EXCEPT !.call = "returned",
               !.success = CountOk(jr.results, TRUE),
               !.failed = CountOk(jr.results, FALSE),
               !.retLen = Len(jr.results)]

\* The continuation of Promise.all, run when a worker's promise settles.
Settle(jr, wj) ==
    IF jr.call # "awaiting" THEN jr
    ELSE IF SomeRejected(jr, wj) THEN [jr EXCEPT !.call = "failed"]
    ELSE IF AllExited(jr, wj) THEN Return(jr)
    ELSE jr

\* The array stopAll iterates is job.browsers itself until a worker replaces it
\* (filter makes a new array): a push is seen by the iteration, a filter is not.
SaSees(j, pushed, filtered) ==
    IF sa.pc = "closing" /\ sa.j = j /\ sa.aliased
    THEN IF filtered THEN [sa EXCEPT !.aliased = FALSE]
         ELSE IF pushed >= 0 THEN [sa EXCEPT !.arr = Append(@, pushed)]
         ELSE sa
    ELSE sa

\* The new state after a step of job j's worker k.
Commit(j, k, r, bj, pushed, filtered) ==
    LET wj == [wk[j] EXCEPT ![k] = r.w]
        s == Settle(r.jr, wj)
    IN  /\ job' = [job EXCEPT ![j] = s]
        /\ wk' = [wk EXCEPT ![j] = wj]
        /\ br' = [br EXCEPT ![j] = bj]
        /\ JOBS' = IF s.call = "returned" /\ r.jr.call = "awaiting" THEN JOBS \ {j} ELSE JOBS
        /\ sa' = SaSees(j, pushed, filtered)
        /\ UNCHANGED <<nextJob, sn>>

----------------------------------------------------------------------------
\* startCreateSessions, first copy (lines 102-193)

\* The items and the workers the calls made so far have taken.
RECURSIVE Taken(_, _)
Taken(f, j) == IF j = 0 THEN 0 ELSE job[j][f] + Taken(f, j - 1)

CanStart(n, conc) ==
    /\ nextJob < MaxJobs
    /\ n <= MaxItems - Taken("n", nextJob)
    /\ conc <= MaxConc - Taken("conc", nextJob)

\* An orchestration call up to its first await: JOBS.set, the workers spawned,
\* then "await Promise.all(workers)", whose continuation runs at once when every
\* worker has already exited.
Begin(jr0) ==
    LET j == nextJob + 1
        r == Spawn(jr0, [k \in WorkerIds |-> IdleWorker], 1)
        s == Settle(r.jr, r.wj)
    IN  /\ nextJob' = j
        /\ job' = [job EXCEPT ![j] = s]
        /\ wk' = [wk EXCEPT ![j] = r.wj]
        /\ JOBS' = IF s.call = "returned" THEN JOBS ELSE JOBS \cup {j}
        /\ UNCHANGED <<br, sa, sn>>

StartCreateSessions(n, conc, marker) ==
    /\ CanStart(n, conc)
    /\ Begin([NewJob("create", n, conc, <<>>) EXCEPT
                 !.marker = marker, !.names = DistinctNames(n)])

AcctFailed(jr, i) == Push(jr, Outcome("acct", i, FALSE))

\* await puppeteer.launch(...) settles (lines 122-129)
CS_Launch(j, k) ==
    /\ job[j].kind = "create" /\ wk[j][k].pc = "launch"
    /\ LET i == wk[j][k].i IN
       \E ok \in BOOLEAN :
          IF ok
          THEN Commit(j, k, [jr |-> [job[j] EXCEPT !.browsers = Append(@, i)],
                             w |-> At("newPage", i)],
                      [br[j] EXCEPT ![i] = "open"], i, FALSE)
          ELSE Commit(j, k, AfterItem(AcctFailed(job[j], i)), br[j], -1, FALSE)

\* await browser.newPage() settles (line 129); a rejection goes to the outer catch
CS_NewPage(j, k) ==
    /\ job[j].kind = "create" /\ wk[j][k].pc = "newPage"
    /\ LET i == wk[j][k].i IN
       \E ok \in PageOutcomes(j, i) :
          IF ok
          THEN Commit(j, k, [jr |-> job[j], w |-> At("login", i)], br[j], -1, FALSE)
          ELSE Commit(j, k, AfterItem(AcctFailed(job[j], i)), br[j], -1, FALSE)

\* page.goto (rejection swallowed), then the login form: waitForSelector, type,
\* type, press (lines 130-136); a rejection goes to the inner catch (149-157)
CS_Login(j, k) ==
    /\ job[j].kind = "create" /\ wk[j][k].pc = "login"
    /\ LET i == wk[j][k].i IN
       \E ok \in PageOutcomes(j, i) :
          IF ok
          THEN Commit(j, k, [jr |-> job[j], w |-> At("delay", i)], br[j], -1, FALSE)
          ELSE Commit(j, k, [jr |-> AcctFailed(job[j], i), w |-> At("close", i)],
                      br[j], -1, FALSE)

\* the race and delay(180000) end; results.push({ok: true, path}) (lines 138-148)
CS_Delay(j, k) ==
    /\ job[j].kind = "create" /\ wk[j][k].pc = "delay"
    /\ LET i == wk[j][k].i IN
       Commit(j, k, [jr |-> Push(job[j], Outcome("acct", i, TRUE)), w |-> At("close", i)],
              br[j], -1, FALSE)

\* await browser.close() settles (lines 158-159); a rejection goes to the outer catch
CS_Close(j, k) ==
    /\ job[j].kind = "create" /\ wk[j][k].pc = "close"
    /\ LET i == wk[j][k].i IN
       \E ok \in BOOLEAN :
          IF ok
          THEN Commit(j, k, AfterItem([job[j] EXCEPT !.browsers = Filter(@, i)]),
                      [br[j] EXCEPT ![i] = AfterClose(@, TRUE)], -1, TRUE)
          ELSE Commit(j, k, AfterItem(AcctFailed(job[j], i)),
                      [br[j] EXCEPT ![i] = AfterClose(@, FALSE)], -1, FALSE)

----------------------------------------------------------------------------
\* startCreateSessions, later revision (lines 604-692)

\* "Promise.all(workers);" is not awaited: JOBS.delete and the return follow the
\* spawning at once, with the workers suspended at their first await.
BeginNoAwait(jr0) ==
    LET j == nextJob + 1
        r == Spawn(jr0, [k \in WorkerIds |-> IdleWorker], 1)
    IN  /\ nextJob' = j
        /\ job' = [job EXCEPT ![j] = Return(r.jr)]
        /\ wk' = [wk EXCEPT ![j] = r.wj]
        /\ UNCHANGED <<JOBS, br, sa, sn>>

StartCreateSessions2(n, conc, marker) ==
    /\ CanStart(n, conc)
    /\ BeginNoAwait([NewJob("create2", n, conc, <<>>) EXCEPT
                        !.marker = marker, !.names = DistinctNames(n)])

\* await puppeteer.launch(...) settles (lines 630-634): the browser is kept in
\* a local only; a rejection goes to the outer catch, and finally closes nothing
CS2_Launch(j, k) ==
    /\ job[j].kind = "create2" /\ wk[j][k].pc = "launch"
    /\ LET i == wk[j][k].i IN
       \E ok \in BOOLEAN :
          IF ok
          THEN Commit(j, k, [jr |-> job[j], w |-> At("newPage", i)],
                      [br[j] EXCEPT ![i] = "open"], -1, FALSE)
          ELSE Commit(j, k, AfterItem(AcctFailed(job[j], i)), br[j], -1, FALSE)

\* browser.newPage() and page.goto(...) (lines 636-637): a rejection of either
\* goes to the outer catch, then finally
CS2_NewPage(j, k) ==
    /\ job[j].kind = "create2" /\ wk[j][k].pc = "newPage"
    /\ LET i == wk[j][k].i IN
       \E ok \in PageOutcomes(j, i) :
          IF ok
          THEN Commit(j, k, [jr |-> job[j], w |-> At("probe", i)], br[j], -1, FALSE)
          ELSE Commit(j, k, [jr |-> AcctFailed(job[j], i), w |-> At("close", i)],
                      br[j], -1, FALSE)

\* waitForSelector(successSelector) (lines 640-647): the marker, or the login form
CS2_Probe(j, k) ==
    /\ job[j].kind = "create2" /\ wk[j][k].pc = "probe"
    /\ LET i == wk[j][k].i IN
       \E ok \in MarkerOutcomes(j, i) :
          IF ok
          THEN Commit(j, k, [jr |-> Push(job[j], Outcome("acct", i, TRUE)),
                             w |-> At("close", i)], br[j], -1, FALSE)
          ELSE Commit(j, k, [jr |-> job[j], w |-> At("login", i)], br[j], -1, FALSE)

\* the login form, the credentials, and the marker again (lines 648-663)
CS2_Login(j, k) ==
    /\ job[j].kind = "create2" /\ wk[j][k].pc = "login"
    /\ LET i == wk[j][k].i IN
       \E ok \in PageOutcomes(j, i) :
          Commit(j, k, [jr |-> Push(job[j], Outcome("acct", i, ok)), w |-> At("close", i)],
                 br[j], -1, FALSE)

\* finally: await browser.close() (lines 671-676); a rejection leaves the worker
CS2_Close(j, k) ==
    /\ job[j].kind = "create2" /\ wk[j][k].pc = "close"
    /\ LET i == wk[j][k].i IN
       \E ok \in BOOLEAN :
          IF ok
          THEN Commit(j, k, AfterItem(job[j]), [br[j] EXCEPT ![i] = AfterClose(@, TRUE)], -1, FALSE)
          ELSE Commit(j, k, [jr |-> job[j], w |-> Rejected("close")],
                      [br[j] EXCEPT ![i] = AfterClose(@, FALSE)], -1, FALSE)

----------------------------------------------------------------------------
\* startJoinGroups (lines 694-805; lines 195-309 differ in the else of 769-771 only)

\* groupsBySession (lines 709-719): a record keyed by session name, every name
\* of sessionNames starting at [], then link idx pushed onto the list of
\* sessionNames[floor(idx / groupsPerSession)] when that index is in the list.
\* Links are indices into groupLinks.
GroupsInit(jr) == [s \in {jr.names[a] : a \in 1..jr.n} |-> <<>>]

\* GroupsFrom taking the remainder of idx by groupsPerSession for sessionIndex.
RECURSIVE GroupsFrom_Remainder(_, _, _)
GroupsFrom_Remainder(jr, g, idx) ==
    IF idx >= jr.nlinks THEN g
    ELSE LET sessionIndex == idx % jr.gps
         IN  GroupsFrom_Remainder(jr,
                 IF sessionIndex < jr.n
                 THEN [g EXCEPT ![jr.names[sessionIndex + 1]] = Append(@, idx)]
                 ELSE g,
                 idx + 1)

RECURSIVE GroupsFrom(_, _, _)
GroupsFrom(jr, g, idx) ==
    IF idx >= jr.nlinks THEN g
    ELSE LET sessionIndex == idx \div jr.gps
         IN  GroupsFrom(jr,
                 IF sessionIndex < jr.n
                 THEN [g EXCEPT ![jr.names[sessionIndex + 1]] = Append(@, idx)]
                 ELSE g,
                 idx + 1)

groupsBySession(jr) == GroupsFrom(jr, GroupsInit(jr), 0)

\* groupsForThisSession of item i (line 755)
LinksOf(jr, i) == groupsBySession(jr)[jr.names[i + 1]]

StartJoinGroups(n, conc, names, exists, nlinks, gps) ==
    /\ CanStart(n, conc)
    /\ Begin([NewJob("join", n, conc, exists) EXCEPT
                 !.names = names, !.nlinks = nlinks, !.gps = gps])

CountB(bs, b) == Cardinality({x \in 1..Len(bs) : bs[x] = b})

\* results.push({session, ok: true, summary, groups}) (lines 781-791), then finally
SessionDone(jr, w) ==
    [jr |-> Push(jr, [Outcome("session", w.i, TRUE) EXCEPT
                          !.summary = <<CountB(w.acc, TRUE), CountB(w.acc, FALSE), Len(w.acc)>>,
                          !.groups = w.acc]),
     w |-> Goto(w, "close")]

\* LinkLoop without "if (job.stopRequested) break;".
LinkLoop_IgnoresStop(jr, w) ==
    IF w.u < Len(LinksOf(jr, w.i))
    THEN [jr |-> jr, w |-> Goto(w, "goto")]
    ELSE SessionDone(jr, w)

\* The for loop over the session's links at link number w.u (lines 756-757): the
\* flag check, then page.goto(link).
LinkLoop(jr, w) ==
    IF w.u < Len(LinksOf(jr, w.i)) /\ ~jr.stopRequested
    THEN [jr |-> jr, w |-> Goto(w, "goto")]
    ELSE SessionDone(jr, w)

\* sessionResults.push({group: link, ok}) and the counters, then the next link
LinkDone(jr, w, ok) ==
    LinkLoop(jr, [w EXCEPT !.acc = Append(@, ok), !.u = @ + 1])

\* await puppeteer.launch(...) settles (lines 745-750), outside any try: a
\* rejection leaves the worker
JG_Launch(j, k) ==
    /\ job[j].kind = "join" /\ wk[j][k].pc = "launch"
    /\ LET i == wk[j][k].i IN
       \E ok \in BOOLEAN :
          IF ok
          THEN Commit(j, k, [jr |-> [job[j] EXCEPT !.browsers = Append(@, i)],
                             w |-> At("newPage", i)],
                      [br[j] EXCEPT ![i] = "open"], i, FALSE)
          ELSE Commit(j, k, [jr |-> job[j], w |-> Rejected("launch")], br[j], -1, FALSE)

\* await browser.newPage() settles (line 753); a rejection runs finally and
\* leaves the worker
JG_NewPage(j, k) ==
    /\ job[j].kind = "join" /\ wk[j][k].pc = "newPage"
    /\ \E ok \in PageOutcomes(j, wk[j][k].i) :
          IF ok
          THEN Commit(j, k, LinkLoop(job[j], wk[j][k]), br[j], -1, FALSE)
          ELSE Commit(j, k, [jr |-> job[j], w |-> Goto(wk[j][k], "closeThrow")],
                      br[j], -1, FALSE)

\* await page.goto(link) settles (line 761); a rejection goes to the catch of
\* lines 775-778
JG_Goto(j, k) ==
    /\ job[j].kind = "join" /\ wk[j][k].pc = "goto"
    /\ \E ok \in PageOutcomes(j, wk[j][k].i) :
          IF ok
          THEN Commit(j, k, [jr |-> job[j], w |-> Goto(wk[j][k], "probe")], br[j], -1, FALSE)
          ELSE Commit(j, k, LinkDone(job[j], wk[j][k], FALSE), br[j], -1, FALSE)

\* waitForSelector("Gabung ke grup") settles (lines 762-768): found, it is
\* clicked and joined = true; absent, "Join Group" is tried (line 770)
JG_Probe(j, k) ==
    /\ job[j].kind = "join" /\ wk[j][k].pc = "probe"
    /\ \E found \in PageOutcomes(j, wk[j][k].i) :
          IF found
          THEN Commit(j, k, LinkDone(job[j], wk[j][k], TRUE), br[j], -1, FALSE)
          ELSE Commit(j, k, [jr |-> job[j], w |-> Goto(wk[j][k], "altClick")],
                      br[j], -1, FALSE)

\* page.click("Join Group").catch(...) settles (line 770), clicked telling
\* whether the control was there and the click got through: joined stays false
\* either way
JG_AltClickWith(j, k, clicked) ==
    /\ job[j].kind = "join" /\ wk[j][k].pc = "altClick"
    /\ Commit(j, k, LinkDone(job[j], wk[j][k], FALSE), br[j], -1, FALSE)

JG_AltClick(j, k) == \E clicked \in PageOutcomes(j, wk[j][k].i) : JG_AltClickWith(j, k, clicked)

\* finally: browser.close().catch(...) settles, then the filter (lines 792-795);
\* after a rejection of newPage the exception then leaves the worker
JG_Close(j, k) ==
    /\ job[j].kind = "join" /\ wk[j][k].pc \in {"close", "closeThrow"}
    /\ LET i == wk[j][k].i
           jr == [job[j] EXCEPT !.browsers = Filter(@, i)]
       IN  \E ok \in BOOLEAN :
              Commit(j, k,
                     IF wk[j][k].pc = "close" THEN WorkerLoop(jr)
                     ELSE [jr |-> jr, w |-> Rejected("newPage")],
                     [br[j] EXCEPT ![i] = AfterClose(@, ok)], -1, TRUE)

----------------------------------------------------------------------------
\* startPostAndComment (lines 973-1057; identical to lines 456-540) and
\* attemptPostingWithRetries (lines 826-970; lines 331-453 lack the
\* "Anonymous post" branch of lines 875-907)

MAX_ATTEMPTS == 2

StartPostAndComment(n, conc, exists) ==
    /\ CanStart(n, conc)
    /\ Begin([NewJob("post", n, conc, exists) EXCEPT !.names = DistinctNames(n)])

\* The for loop over the discovered urls at url number w.u (lines 1021-1023): the
\* flag check, then page.goto(url); the break and the end of the loop both
\* fall through to finally.
UrlLoop(jr, w) ==
    IF w.u < w.nu /\ ~jr.stopRequested
    THEN [jr |-> jr, w |-> Goto(w, "gotoUrl")]
    ELSE [jr |-> jr, w |-> Goto(w, "close")]

\* attemptPostingWithRetries has returned ok: results.push({session, group, ok}),
\* then await delay(5000) (lines 1026-1028)
AttemptReturn(jr, w, ok) ==
    [jr |-> Push(jr, Outcome("group", w.i, ok)), w |-> Goto(w, "pause")]

\* The head of the attempt loop (lines 836-840): the flag check, then the wait
\* for "Postingan anonim".
AttemptLoop(jr, w) ==
    IF w.att > MAX_ATTEMPTS \/ jr.stopRequested
    THEN AttemptReturn(jr, w, FALSE)
    ELSE [jr |-> jr, w |-> Goto(w, "anon")]

\* "if (job.stopRequested) return false;" before going on to the await pc
Unless(jr, w, pc) ==
    IF jr.stopRequested THEN AttemptReturn(jr, w, FALSE) ELSE [jr |-> jr, w |-> Goto(w, pc)]

\* AttemptCatch comparing the attempt with <= : the last attempt reloads too.
AttemptCatch_ReloadsAgain(jr, w) ==
    IF jr.stopRequested THEN AttemptReturn(jr, w, FALSE)
    ELSE IF w.att <= MAX_ATTEMPTS THEN [jr |-> jr, w |-> Goto(w, "reload")]
    ELSE AttemptReturn(Push(jr, Outcome("attempt", w.i, FALSE)), w, FALSE)

\* The catch of an attempt (lines 955-966)
AttemptCatch(jr, w) ==
    IF jr.stopRequested THEN AttemptReturn(jr, w, FALSE)
    ELSE IF w.att < MAX_ATTEMPTS THEN [jr |-> jr, w |-> Goto(w, "reload")]
    ELSE AttemptReturn(Push(jr, Outcome("attempt", w.i, FALSE)), w, FALSE)

\* await puppeteer.launch(...) settles (lines 992-997), outside any try
PC_Launch(j, k) ==
    /\ job[j].kind = "post" /\ wk[j][k].pc = "launch"
    /\ LET i == wk[j][k].i IN
       \E ok \in BOOLEAN :
          IF ok
          THEN Commit(j, k, [jr |-> [job[j] EXCEPT !.browsers = Append(@, i)],
                             w |-> At("newPage", i)],
                      [br[j] EXCEPT ![i] = "open"], i, FALSE)
          ELSE Commit(j, k, [jr |-> job[j], w |-> Rejected("launch")], br[j], -1, FALSE)

\* await browser.newPage() settles (lines 1000-1006): the flag check breaks the
\* while loop through finally; a rejection runs finally and leaves the worker
PC_NewPage(j, k) ==
    /\ job[j].kind = "post" /\ wk[j][k].pc = "newPage"
    /\ LET w == wk[j][k] IN
       \E ok \in PageOutcomes(j, w.i) :
          IF ok
          THEN Commit(j, k, [jr |-> job[j],
                             w |-> Goto(w, IF job[j].stopRequested THEN "closeBreak" ELSE "feed")],
                      br[j], -1, FALSE)
          ELSE Commit(j, k, [jr |-> job[j], w |-> Goto(w, "closeThrow")], br[j], -1, FALSE)

\* page.goto(feed).catch and waitForSelector(pinned).catch settle (lines 1006-1011)
PC_Feed(j, k) ==
    /\ job[j].kind = "post" /\ wk[j][k].pc = "feed"
    /\ LET w == wk[j][k] IN
       Commit(j, k, [jr |-> job[j],
                     w |-> Goto(w, IF job[j].stopRequested THEN "closeBreak" ELSE "discover")],
              br[j], -1, FALSE)

\* page.$$ and the evaluate of every anchor settle (lines 1013-1019): nu urls,
\* at most m, match the pattern; a rejection goes to the catch of lines 1030-1032
PC_DiscoverUpTo(j, k, m) ==
    /\ job[j].kind = "post" /\ wk[j][k].pc = "discover"
    /\ LET w == wk[j][k] IN
       \E ok \in PageOutcomes(j, w.i) :
          IF ok
          THEN \E nu \in 0..m :
                  Commit(j, k, UrlLoop(job[j], [w EXCEPT !.nu = nu, !.u = 0]), br[j], -1, FALSE)
          ELSE Commit(j, k, [jr |-> Push(job[j], Outcome("session", w.i, FALSE)),
                             w |-> Goto(w, "close")], br[j], -1, FALSE)

PC_Discover(j, k) == PC_DiscoverUpTo(j, k, MaxUrls)

\* await page.goto(url).catch settles (lines 1023-1026): the flag check, then
\* attemptPostingWithRetries from attempt 1
PC_GotoUrl(j, k) ==
    /\ job[j].kind = "post" /\ wk[j][k].pc = "gotoUrl"
    /\ LET w == wk[j][k] IN
       IF job[j].stopRequested
       THEN Commit(j, k, [jr |-> job[j], w |-> Goto(w, "close")], br[j], -1, FALSE)
       ELSE Commit(j, k, AttemptLoop(job[j], [w EXCEPT !.att = 1]), br[j], -1, FALSE)

\* waitForSelector("Postingan anonim").catch settles (lines 840-842)
PA_Anon(j, k) ==
    /\ job[j].kind = "post" /\ wk[j][k].pc = "anon"
    /\ LET w == wk[j][k] IN
       \E found \in PageOutcomes(j, w.i) :
          IF found
          THEN Commit(j, k, Unless(job[j], w, "compose"), br[j], -1, FALSE)
          ELSE Commit(j, k, [jr |-> job[j], w |-> Goto(w, "altAnon")], br[j], -1, FALSE)

\* waitForSelector("Anonymous post").catch settles (lines 875-877); absent,
\* page.goto(buySellUrl) (lines 909-914)
PA_AltAnon(j, k) ==
    /\ job[j].kind = "post" /\ wk[j][k].pc = "altAnon"
    /\ LET w == wk[j][k] IN
       \E found \in PageOutcomes(j, w.i) :
          Commit(j, k, [jr |-> job[j], w |-> Goto(w, IF found THEN "compose" ELSE "fallback")],
                 br[j], -1, FALSE)

\* page.goto(buySellUrl).catch settles (lines 914-916)
PA_Fallback(j, k) ==
    /\ job[j].kind = "post" /\ wk[j][k].pc = "fallback"
    /\ Commit(j, k, Unless(job[j], wk[j][k], "anon2"), br[j], -1, FALSE)

\* waitForSelector("Postingan anonim").catch on the fallback page settles
\* (lines 916-918)
PA_Anon2(j, k) ==
    /\ job[j].kind = "post" /\ wk[j][k].pc = "anon2"
    /\ Commit(j, k, Unless(job[j], wk[j][k], "compose"), br[j], -1, FALSE)

\* the clicks and the waits for the composer, every rejection swallowed, with
\* the flag checks between them (lines 843-849, 877-883, 918-925)
PA_Compose(j, k) ==
    /\ job[j].kind = "post" /\ wk[j][k].pc = "compose"
    /\ Commit(j, k, Unless(job[j], wk[j][k], "chooser"), br[j], -1, FALSE)

\* Promise.all([waitForFileChooser, click]) settles (lines 852-856)
PA_Chooser(j, k) ==
    /\ job[j].kind = "post" /\ wk[j][k].pc = "chooser"
    /\ LET w == wk[j][k] IN
       \E ok \in PageOutcomes(j, w.i) :
          IF ok
          THEN Commit(j, k, Unless(job[j], w, "submit"), br[j], -1, FALSE)
          ELSE Commit(j, k, AttemptCatch(job[j], w), br[j], -1, FALSE)

\* accept, type, the wait for "Kirim" and the click settle (lines 857-865)
PA_Submit(j, k) ==
    /\ job[j].kind = "post" /\ wk[j][k].pc = "submit"
    /\ LET w == wk[j][k] IN
       \E ok \in PageOutcomes(j, w.i) :
          IF ok
          THEN Commit(j, k, [jr |-> job[j], w |-> Goto(w, "comment")], br[j], -1, FALSE)
          ELSE Commit(j, k, AttemptCatch(job[j], w), br[j], -1, FALSE)

\* PA_CommentWith with a postCommentDirectly that lets its exception out: a
\* failed comment goes to the catch of the attempt.
PA_CommentWith_Throws(j, k, commentOk) ==
    /\ job[j].kind = "post" /\ wk[j][k].pc = "comment"
    /\ LET w == wk[j][k] IN
       IF commentOk
       THEN Commit(j, k,
                   AttemptReturn(Push(job[j], [Outcome("attempt", w.i, TRUE) EXCEPT
                                                   !.comment = TRUE]), w, TRUE),
                   br[j], -1, FALSE)
       ELSE Commit(j, k, AttemptCatch(job[j], w), br[j], -1, FALSE)

\* postCommentDirectly settles with commentOk, false when the comment box was
\* absent or an interaction raised (lines 807-823): results.push({post: true,
\* comment: commentOk}), return true (lines 866-872, 953)
PA_CommentWith(j, k, commentOk) ==
    /\ job[j].kind = "post" /\ wk[j][k].pc = "comment"
    /\ LET w == wk[j][k] IN
       Commit(j, k,
              AttemptReturn(Push(job[j], [Outcome("attempt", w.i, TRUE) EXCEPT
                                              !.comment = commentOk]), w, TRUE),
              br[j], -1, FALSE)

PA_Comment(j, k) == \E commentOk \in PageOutcomes(j, wk[j][k].i) : PA_CommentWith(j, k, commentOk)

\* page.reload().catch and delay(5000) settle (lines 960-961): the next attempt
PA_Reload(j, k) ==
    /\ job[j].kind = "post" /\ wk[j][k].pc = "reload"
    /\ Commit(j, k, AttemptLoop(job[j], [wk[j][k] EXCEPT !.att = @ + 1]), br[j], -1, FALSE)

\* await delay(5000) settles (line 1028): the next url
PC_Pause(j, k) ==
    /\ job[j].kind = "post" /\ wk[j][k].pc = "pause"
    /\ Commit(j, k, UrlLoop(job[j], [wk[j][k] EXCEPT !.u = @ + 1, !.att = 0]), br[j], -1, FALSE)

\* finally: browser.close().catch(...) settles, then the filter (lines
\* 1033-1036); then the loop head, the break, or the exception leaving the worker
PC_Close(j, k) ==
    /\ job[j].kind = "post" /\ wk[j][k].pc \in {"close", "closeBreak", "closeThrow"}
    /\ LET i == wk[j][k].i
           jr == [job[j] EXCEPT !.browsers = Filter(@, i)]
       IN  \E ok \in BOOLEAN :
              Commit(j, k,
                     IF wk[j][k].pc = "close" THEN WorkerLoop(jr)
                     ELSE IF wk[j][k].pc = "closeBreak" THEN [jr |-> jr, w |-> DoneWorker]
                     ELSE [jr |-> jr, w |-> Rejected("newPage")],
                     [br[j] EXCEPT ![i] = AfterClose(@, ok)], -1, TRUE)

----------------------------------------------------------------------------
\* stopAll (lines 1059-1076)

\* pc "closing": suspended at "await b.close()" for b = arr[pos] of job j, arr
\* being the array the inner for-of iterates.  at0 is history: the registry when
\* the call was made.
SaIdle == [pc |-> "idle", j |-> 0, arr |-> <<>>, pos |-> 0, aliased |-> FALSE, at0 |-> {}]

\* The next entry of JOBS.entries() after job cur whose browsers array is not
\* empty (0 when there is none): the jobs before it are only flagged.
NextWithBrowsers(cur) ==
    LET c == {x \in JOBS : x > cur /\ Len(job[x].browsers) > 0}
    IN  IF c = {} THEN 0 ELSE CHOOSE x \in c : \A y \in c : x <= y

\* The jobs whose flag is set on the way from cur to target.
Flagged(cur, target) == {x \in JOBS : x > cur /\ (target = 0 \/ x <= target)}

\* SaAdvance without the JOBS.clear() at the end.
SaAdvance_NoClear(cur, at0) ==
    LET t == NextWithBrowsers(cur)
        fl == Flagged(cur, t)
    IN  /\ job' = [x \in JobIds |->
                     IF x \in fl THEN [job[x] EXCEPT !.stopRequested = TRUE] ELSE job[x]]
        /\ JOBS' = JOBS
        /\ sa' = IF t = 0 THEN SaIdle
                 ELSE [pc |-> "closing", j |-> t, arr |-> job[t].browsers, pos |-> 1,
                       aliased |-> TRUE, at0 |-> at0]

\* The outer loop from the entry after cur up to the next await b.close(), or to
\* JOBS.clear() when the entries are exhausted.
SaAdvance(cur, at0) ==
    LET t == NextWithBrowsers(cur)
        fl == Flagged(cur, t)
    IN  /\ job' = [x \in JobIds |->
                     IF x \in fl THEN [job[x] EXCEPT !.stopRequested = TRUE] ELSE job[x]]
        /\ IF t = 0
           THEN /\ JOBS' = {}
                /\ sa' = SaIdle
           ELSE /\ JOBS' = JOBS
                /\ sa' = [pc |-> "closing", j |-> t, arr |-> job[t].browsers, pos |-> 1,
                          aliased |-> TRUE, at0 |-> at0]

StopAll ==
    /\ sa.pc = "idle"
    /\ SaAdvance(0, JOBS)
    /\ UNCHANGED <<wk, br, nextJob, sn>>

\* What "await b.close()" and its catch may come to: the close resolved
\* ("closed"); it threw and proc.kill('SIGKILL') was called and ended the process
\* ("killed"); it threw and the kill was called and did not end the process, an
\* exception of the kill being swallowed ("failed").
CloseOutcomes == {"closed", "killed", "failed"}

\* SA_CloseWith with a kill whose exception is not caught: stopAll rejects.
SA_CloseWith_Uncaught(out) ==
    /\ sa.pc = "closing"
    /\ LET b == sa.arr[sa.pos] IN
          /\ br' = [br EXCEPT ![sa.j][b] = AfterClose(@, out # "failed")]
          /\ IF out = "failed"
             THEN /\ sa' = SaIdle
                  /\ UNCHANGED <<job, JOBS>>
             ELSE IF sa.pos < Len(sa.arr)
             THEN /\ sa' = [sa EXCEPT !.pos = @ + 1]
                  /\ UNCHANGED <<job, JOBS>>
             ELSE SaAdvance(sa.j, sa.at0)
    /\ UNCHANGED <<wk, nextJob, sn>>

\* await b.close() settles with outcome out (lines 1064-1071): then the next
\* browser of the array, or the next job, or JOBS.clear().
SA_CloseWith(out) ==
    /\ sa.pc = "closing"
    /\ LET b == sa.arr[sa.pos] IN
          /\ br' = [br EXCEPT ![sa.j][b] = AfterClose(@, out # "failed")]
          /\ IF sa.pos < Len(sa.arr)
             THEN /\ sa' = [sa EXCEPT !.pos = @ + 1]
                  /\ UNCHANGED <<job, JOBS>>
             ELSE SaAdvance(sa.j, sa.at0)
    /\ UNCHANGED <<wk, nextJob, sn>>

SA_Close == \E out \in CloseOutcomes : SA_CloseWith(out)

----------------------------------------------------------------------------

Init ==
    /\ JOBS = {}
    /\ job = [j \in JobIds |-> NoJob]
    /\ wk = [j \in JobIds |-> [k \in WorkerIds |-> IdleWorker]]
    /\ br = [j \in JobIds |-> [i \in ItemIdx |-> "none"]]
    /\ sa = SaIdle
    /\ nextJob = 0
    /\ sn = SnIdle

Next ==
    \/ \E n \in 0..MaxItems, c \in 1..MaxConc, m \in BOOLEAN : StartCreateSessions(n, c, m)
    \/ \E j \in JobIds, k \in WorkerIds : CS_Launch(j, k)
    \/ \E j \in JobIds, k \in WorkerIds : CS_NewPage(j, k)
    \/ \E j \in JobIds, k \in WorkerIds : CS_Login(j, k)
    \/ \E j \in JobIds, k \in WorkerIds : CS_Delay(j, k)
    \/ \E j \in JobIds, k \in WorkerIds : CS_Close(j, k)
    \/ \E n \in 0..MaxItems, c \in 1..MaxConc, m \in BOOLEAN : StartCreateSessions2(n, c, m)
    \/ \E j \in JobIds, k \in WorkerIds : CS2_Launch(j, k)
    \/ \E j \in JobIds, k \in WorkerIds : CS2_NewPage(j, k)
    \/ \E j \in JobIds, k \in WorkerIds : CS2_Probe(j, k)
    \/ \E j \in JobIds, k \in WorkerIds : CS2_Login(j, k)
    \/ \E j \in JobIds, k \in WorkerIds : CS2_Close(j, k)
    \/ \E n \in 0..MaxItems, c \in 1..MaxConc :
          /\ CanStart(n, c)
          /\ \E nl \in 0..MaxLinks, g \in 1..MaxLinks, nm \in NameLists[n], ex \in [1..n -> BOOLEAN] :
                /\ \A a, b \in 1..n :
                      sanitizeName(NameOf(nm[a])) = sanitizeName(NameOf(nm[b])) => ex[a] = ex[b]
                /\ StartJoinGroups(n, c, nm, ex, nl, g)
    \/ \E j \in JobIds, k \in WorkerIds : JG_Launch(j, k)
    \/ \E j \in JobIds, k \in WorkerIds : JG_NewPage(j, k)
    \/ \E j \in JobIds, k \in WorkerIds : JG_Goto(j, k)
    \/ \E j \in JobIds, k \in WorkerIds : JG_Probe(j, k)
    \/ \E j \in JobIds, k \in WorkerIds : JG_AltClick(j, k)
    \/ \E j \in JobIds, k \in WorkerIds : JG_Close(j, k)
    \/ \E n \in 0..MaxItems, c \in 1..MaxConc :
          /\ CanStart(n, c)
          /\ \E ex \in [1..n -> BOOLEAN] : StartPostAndComment(n, c, ex)
    \/ \E j \in JobIds, k \in WorkerIds : PC_Launch(j, k)
    \/ \E j \in JobIds, k \in WorkerIds : PC_NewPage(j, k)
    \/ \E j \in JobIds, k \in WorkerIds : PC_Feed(j, k)
    \/ \E j \in JobIds, k \in WorkerIds : PC_Discover(j, k)
    \/ \E j \in JobIds, k \in WorkerIds : PC_GotoUrl(j, k)
    \/ \E j \in JobIds, k \in WorkerIds : PA_Anon(j, k)
    \/ \E j \in JobIds, k \in WorkerIds : PA_AltAnon(j, k)
    \/ \E j \in JobIds, k \in WorkerIds : PA_Fallback(j, k)
    \/ \E j \in JobIds, k \in WorkerIds : PA_Anon2(j, k)
    \/ \E j \in JobIds, k \in WorkerIds : PA_Compose(j, k)
    \/ \E j \in JobIds, k \in WorkerIds : PA_Chooser(j, k)
    \/ \E j \in JobIds, k \in WorkerIds : PA_Submit(j, k)
    \/ \E j \in JobIds, k \in WorkerIds : PA_Comment(j, k)
    \/ \E j \in JobIds, k \in WorkerIds : PA_Reload(j, k)
    \/ \E j \in JobIds, k \in WorkerIds : PC_Pause(j, k)
    \/ \E j \in JobIds, k \in WorkerIds : PC_Close(j, k)
    \/ StopAll
    \/ SA_Close

Spec == Init /\ [][Next]_vars

\* The step of job j's worker k that the settling of its pending await brings.
WorkerStep(j, k) ==
    \/ CS_Launch(j, k) \/ CS_NewPage(j, k) \/ CS_Login(j, k) \/ CS_Delay(j, k)
    \/ CS_Close(j, k)
    \/ CS2_Launch(j, k) \/ CS2_NewPage(j, k) \/ CS2_Probe(j, k) \/ CS2_Login(j, k)
    \/ CS2_Close(j, k)
    \/ JG_Launch(j, k) \/ JG_NewPage(j, k) \/ JG_Goto(j, k) \/ JG_Probe(j, k)
    \/ JG_AltClick(j, k) \/ JG_Close(j, k)
    \/ PC_Launch(j, k) \/ PC_NewPage(j, k) \/ PC_Feed(j, k) \/ PC_Discover(j, k)
    \/ PC_GotoUrl(j, k) \/ PA_Anon(j, k) \/ PA_AltAnon(j, k) \/ PA_Fallback(j, k)
    \/ PA_Anon2(j, k) \/ PA_Compose(j, k) \/ PA_Chooser(j, k) \/ PA_Submit(j, k)
    \/ PA_Comment(j, k) \/ PA_Reload(j, k) \/ PC_Pause(j, k) \/ PC_Close(j, k)

\* Every Puppeteer call and every delay a worker or stopAll awaits settles in the
\* end (it completes, fails or times out), and the event loop then runs the
\* continuation.
EveryAwaitSettles ==
    /\ \A j \in JobIds, k \in WorkerIds : WF_vars(WorkerStep(j, k))
    /\ WF_vars(SA_Close)

SpecLive == Init /\ [][Next]_vars /\ EveryAwaitSettles

\* sanitizeName on its own: every string of at most MaxLen code units, sanitized
\* and sanitized again.
InitSanitize ==
    /\ JOBS = {}
    /\ job = [j \in JobIds |-> NoJob]
    /\ wk = [j \in JobIds |-> [k \in WorkerIds |-> IdleWorker]]
    /\ br = [j \in JobIds |-> [i \in ItemIdx |-> "none"]]
    /\ sa = SaIdle
    /\ nextJob = 0
    /\ \E s \in Strings : sn = [x |-> s, prev |-> s, y |-> s, n |-> 0]

NextSanitize == Sanitize

SpecSanitize == InitSanitize /\ [][NextSanitize]_vars

\* One call of startPostAndComment with up to MaxPostConc workers, and stopAll,
\* on their own, with sessions that discover up to MaxPostUrls urls.
NextPost ==
    \/ \E n \in 0..MaxItems, c \in 1..MaxPostConc :
          /\ nextJob = 0
          /\ \E ex \in [1..n -> BOOLEAN] : StartPostAndComment(n, c, ex)
    \/ \E j \in JobIds, k \in WorkerIds : PC_Launch(j, k)
    \/ \E j \in JobIds, k \in WorkerIds : PC_NewPage(j, k)
    \/ \E j \in JobIds, k \in WorkerIds : PC_Feed(j, k)
    \/ \E j \in JobIds, k \in WorkerIds : PC_DiscoverUpTo(j, k, MaxPostUrls)
    \/ \E j \in JobIds, k \in WorkerIds : PC_GotoUrl(j, k)
    \/ \E j \in JobIds, k \in WorkerIds : PA_Anon(j, k)
    \/ \E j \in JobIds, k \in WorkerIds : PA_AltAnon(j, k)
    \/ \E j \in JobIds, k \in WorkerIds : PA_Fallback(j, k)
    \/ \E j \in JobIds, k \in WorkerIds : PA_Anon2(j, k)
    \/ \E j \in JobIds, k \in WorkerIds : PA_Compose(j, k)
    \/ \E j \in JobIds, k \in WorkerIds : PA_Chooser(j, k)
    \/ \E j \in JobIds, k \in WorkerIds : PA_Submit(j, k)
    \/ \E j \in JobIds, k \in WorkerIds : PA_Comment(j, k)
    \/ \E j \in JobIds, k \in WorkerIds : PA_Reload(j, k)
    \/ \E j \in JobIds, k \in WorkerIds : PC_Pause(j, k)
    \/ \E j \in JobIds, k \in WorkerIds : PC_Close(j, k)
    \/ StopAll
    \/ SA_Close

SpecPost == Init /\ [][NextPost]_vars

----------------------------------------------------------------------------
\* Properties

Active(w) == w.pc \notin {"idle", "done", "rejected"}
Workers(j) == 1..job[j].conc
InSeq(x, sq) == \E a \in 1..Len(sq) : sq[a] = x
NoDup(sq) == \A a, b \in 1..Len(sq) : a # b => sq[a] # sq[b]
Occurrences(rs, len, i) == Cardinality({x \in 1..len : rs[x].i = i})
PerItem(rs, len) == Cardinality({x \in 1..len : rs[x].kind \in {"acct", "session"}})

\* C1: in every workflow and for every concurrency, no index of the input list is
\* claimed twice: the values "index++" hands out are pairwise distinct, and no two
\* workers of a job are at the same item.
C1_IndexClaimedOnce ==
    \A j \in JobIds :
        /\ NoDup(job[j].claimed)
        /\ \A k1, k2 \in Workers(j) :
              (k1 # k2 /\ Active(wk[j][k1]) /\ Active(wk[j][k2])) => wk[j][k1].i # wk[j][k2].i

\* Two workers of one job have each claimed an item and are both mid-item.
C1_Witness ==
    \E j \in JobIds : \E k1, k2 \in Workers(j) :
        /\ k1 # k2 /\ Active(wk[j][k1]) /\ Active(wk[j][k2])
        /\ Len(job[j].claimed) >= 2
        /\ wk[j][k1].pc # "launch"

\* C2: an orchestration call has returned its result only when every worker it
\* spawned has exited.
C2_ReturnsAfterWorkersExit ==
    \A j \in JobIds :
        job[j].call = "returned" => \A k \in Workers(j) : ~Active(wk[j][k])

\* C3: with cancellation never requested, the results startCreateSessions returns
\* hold exactly one outcome for each of the N accounts.
C3_OneOutcomePerAccount ==
    \A j \in JobIds :
        (job[j].kind \in {"create", "create2"} /\ job[j].call = "returned"
            /\ ~job[j].stopRequested)
        => /\ job[j].retLen = job[j].n
           /\ \A i \in 0..(job[j].n - 1) : Occurrences(job[j].results, job[j].retLen, i) = 1

\* C4: in the summary startCreateSessions and startPostAndComment return,
\* success + failed is the number of outcomes in the results returned with it
\* (counting every entry of the list, or counting the per-item outcomes only).
C4_SummaryCountsOutcomes ==
    \A j \in JobIds :
        (job[j].kind \in {"create", "create2", "post"} /\ job[j].call = "returned")
        => \/ job[j].success + job[j].failed = job[j].retLen
           \/ job[j].success + job[j].failed = PerItem(job[j].results, job[j].retLen)

\* The browsers the registry tracks.
Tracked == UNION {{<<j, job[j].browsers[a]>> : a \in 1..Len(job[j].browsers)} : j \in JOBS}

\* C5: when a stopAll call completes, the registry holds no job, and so tracks
\* no browser.
C5_StopAllEmptiesRegistry ==
    [][((StopAll \/ SA_Close) /\ sa'.pc = "idle") => (JOBS' = {} /\ Tracked' = {})]_vars

\* stopAll has completed while a worker of a job it flagged is still mid-item.
C5_Witness ==
    /\ sa.pc = "idle" /\ JOBS = {}
    /\ \E j \in JobIds :
          /\ job[j].stopRequested /\ job[j].call = "awaiting"
          /\ \E k \in Workers(j) : Active(wk[j][k]) /\ Running(j, wk[j][k].i)

\* C6: while stopAll is closing browsers, every job that was registered when it
\* was called has its flag set.
C6_FlagsBeforeCloses ==
    sa.pc = "closing" => \A j \in sa.at0 : job[j].stopRequested

\* C7: every browser that was launched and is still running is in the browsers
\* array of its job.
C7_RunningIsRegistered ==
    \A j \in JobIds : \A i \in ItemIdx : Running(j, i) => InSeq(i, job[j].browsers)

\* C8: a browser that was launched and on which no close was ever tried belongs
\* to an item a worker is still at: the worker does not go on to its next item,
\* or exit, without closing it.
C8_ClosedBeforeNextItem ==
    \A j \in JobIds : \A i \in ItemIdx :
        br[j][i] = "open" => \E k \in Workers(j) : Active(wk[j][k]) /\ wk[j][k].i = i

\* C9: once an orchestration call has completed, by returning or by rejecting,
\* its job is not in the registry.
C9_JobRemovedOnCompletion ==
    \A j \in JobIds : job[j].call \in {"returned", "failed"} => j \notin JOBS

\* C10: a failed browser launch never leaves a worker as an exception, and
\* never makes the orchestration call reject.
C10_LaunchFailureBecomesOutcome ==
    \A j \in JobIds : \A k \in Workers(j) : wk[j][k].err # "launch"

\* C11: when a browser could not be set up for an item (the launch or the new
\* page failed and the exception left the worker) and cancellation was not
\* requested, the call does not complete before every index of the input list
\* has been claimed.
C11_SetupFailureKeepsPool ==
    \A j \in JobIds :
        (/\ job[j].call \in {"returned", "failed"}
         /\ ~job[j].stopRequested
         /\ \E k \in Workers(j) : wk[j][k].err \in {"launch", "newPage"})
        => job[j].index >= job[j].n

\* C12: once a job's flag is set, no step claims an index of that job or starts a
\* launch for it: the cursor stays where it is, no worker comes to be at a
\* launch, and a worker that is at an item stays at that item until it exits.
C12_NoClaimAfterCancel ==
    [][\A j \in JobIds :
          job[j].stopRequested
          => /\ job'[j].index = job[j].index
             /\ job'[j].claimed = job[j].claimed
             /\ \A k \in WorkerIds :
                   /\ wk'[j][k].pc = "launch" => wk[j][k].pc = "launch"
                   /\ Active(wk'[j][k]) => (Active(wk[j][k]) /\ wk'[j][k].i = wk[j][k].i)]_vars

\* A flagged job whose workers have all exited, one of them after finishing its
\* item, with indices of the list left unclaimed.
C12_Witness ==
    \E j \in JobIds :
        /\ job[j].stopRequested /\ job[j].index < job[j].n
        /\ job[j].claimed # <<>>
        /\ \A k \in Workers(j) : wk[j][k].pc = "done"

\* The outcomes {session, group, ok: false} in a results array.
FailedTargets(rs) == Cardinality({x \in 1..Len(rs) : rs[x].kind = "group" /\ ~rs[x].ok})

\* C13: once cancellation is requested, the Post+Comment workflow appends no
\* outcome with ok = false for a discovered target, so cancellation adds nothing
\* to the failed count of the summary.
C13_CancelAddsNoFailure ==
    [][\A j \in JobIds :
          (job[j].kind = "post" /\ job[j].stopRequested)
          => FailedTargets(job'[j].results) = FailedTargets(job[j].results)]_vars

Increasing(sq) == \A a, b \in 1..Len(sq) : a < b => sq[a] < sq[b]

\* C14: in startJoinGroups with groupsPerSession = k and m session names, the link
\* at input index idx is in the list of the name sessionNames[floor(idx / k)] when
\* floor(idx / k) < m and in no other list, and in no list at all otherwise; every
\* list keeps the input order; and the link a worker navigates for its session
\* is one the rule gives to that session's name.
C14_LinksPartitioned ==
    \A j \in JobIds :
        job[j].kind = "join"
        => LET jr == job[j]
               g == groupsBySession(jr)
           IN  /\ \A idx \in 0..(jr.nlinks - 1) : \A s \in DOMAIN g :
                     InSeq(idx, g[s])
                     <=> (idx \div jr.gps < jr.n /\ jr.names[(idx \div jr.gps) + 1] = s)
               /\ \A s \in DOMAIN g : Increasing(g[s])
               /\ \A k \in Workers(j) :
                     wk[j][k].pc \in {"goto", "probe", "altClick"}
                     => LET idx == LinksOf(jr, wk[j][k].i)[wk[j][k].u + 1]
                        IN  jr.names[(idx \div jr.gps) + 1] = jr.names[wk[j][k].i + 1]

\* One call whose last link falls beyond the last session while a worker is on
\* an assigned link, and one call whose worker is on the second link of its session.
C14_Witness ==
    \E j1, j2 \in JobIds :
        /\ job[j1].kind = "join" /\ job[j2].kind = "join"
        /\ \E idx \in 0..(job[j1].nlinks - 1) : idx \div job[j1].gps >= job[j1].n
        /\ \E k \in Workers(j1) : wk[j1][k].pc = "probe"
        /\ \E k \in Workers(j2) : wk[j2][k].pc = "goto" /\ wk[j2][k].u = 1

\* C15: in startJoinGroups, an item whose session folder is missing has, once it
\* is claimed, exactly one outcome, with ok = false, summary {success: 0, failed:
\* 1, total: 1} and no groups; no browser was launched for it and no worker is at
\* it (so none of its links is navigated); and the item after it was claimed too.
C15_MissingFolderOneOutcome ==
    \A j \in JobIds :
        job[j].kind = "join"
        => \A a \in 1..Len(job[j].claimed) :
              LET i == job[j].claimed[a]
                  rs == job[j].results
              IN  ~job[j].exists[i + 1]
                  => /\ Occurrences(rs, Len(rs), i) = 1
                     /\ \A x \in 1..Len(rs) :
                           rs[x].i = i
                           => rs[x] = [kind |-> "session", i |-> i, ok |-> FALSE,
                                       comment |-> FALSE, groups |-> <<>>,
                                       summary |-> <<0, 1, 1>>]
                     /\ br[j][i] = "none"
                     /\ \A k \in Workers(j) : ~(Active(wk[j][k]) /\ wk[j][k].i = i)
                     /\ (i + 1 < job[j].n => InSeq(i + 1, job[j].claimed))

\* A call in which the first session's folder is missing and the same worker has
\* gone on to the second session and is on one of its links.
C15_Witness ==
    \E j \in JobIds :
        /\ job[j].kind = "join" /\ job[j].conc = 1 /\ job[j].n = 2
        /\ ~job[j].exists[1] /\ job[j].exists[2]
        /\ wk[j][1].pc = "probe" /\ wk[j][1].i = 1

\* C16: startCreateSessions with one account and concurrency 1, against a UI that
\* always shows the authenticated marker, never waits for the login form and
\* never submits credentials, and the results it returns hold exactly one outcome.
C16_AuthenticatedAccountKept ==
    \A j \in JobIds :
        (job[j].kind \in {"create", "create2"} /\ job[j].n = 1 /\ job[j].conc = 1
            /\ job[j].marker)
        => /\ wk[j][1].pc \notin {"login", "delay"}
           /\ job[j].call = "returned" => job[j].retLen = 1

\* The code units of [a-zA-Z0-9_.@-] among those of the model.
Allowed == {"a", "A", "0", "_", ".", "@", "-"}

\* C17: sanitizeName(x) has the length of x, keeps every code unit of x that is in
\* [a-zA-Z0-9_.@-] and has '_' in place of every other one, so it consists of
\* code units of that class only; and sanitizeName(sanitizeName(x)) =
\* sanitizeName(x).
C17_SanitizeIdempotent ==
    /\ sn.n >= 1
       => /\ Len(sn.y) = Len(sn.x)
          /\ \A p \in 1..Len(sn.x) :
                sn.y[p] = IF sn.x[p] \in Allowed THEN sn.x[p] ELSE "_"
          /\ \A p \in 1..Len(sn.y) : sn.y[p] \in Allowed
    /\ sn.n = 2 => sn.y = sn.prev

\* sanitizeName applied twice to a string with a code unit of the class and a
\* code unit outside it.
C17_Witness ==
    /\ sn.n = 2
    /\ \E p, q \in 1..Len(sn.x) : sn.x[p] \in {"/", " ", "U+017F"} /\ sn.x[q] \in {"A", "@"}

C19_RegisteredWhileRunning ==
    \A j \in JobIds :
        ((\E k \in Workers(j) : Active(wk[j][k])) /\ ~job[j].stopRequested) => j \in JOBS

\* C20: when every await settles in the end, a job that stopAll has flagged
\* comes to a state where all its workers have exited, no browser launched for
\* one of its items is still open with no close tried on it, and its
\* orchestration call has completed.
C20_StopAllDrains ==
    \A j \in JobIds :
        [](job[j].stopRequested
           => <>(/\ \A k \in WorkerIds : ~Active(wk[j][k])
                 /\ \A i \in ItemIdx : br[j][i] # "open"
                 /\ job[j].call # "awaiting"))

\* C21: in startPostAndComment, the attempts on one discovered url are numbered
\* 1 and 2 and no more; attempt 2 starts only from the reload and the pause, which
\* follow only an error of attempt 1 and append nothing; when cancellation is
\* not requested and attempt 2 fails with an error, the records appended are
\* exactly one {post: false, comment: false} and the url's outcome with ok =
\* false; and after the pause that follows the worker is at the next url, going
\* to it when there is one and cancellation is not requested.
C21_RetryBudget ==
    [][\A j \in JobIds, k \in WorkerIds :
          LET w == wk[j][k]
              w2 == wk'[j][k]
              rs == job[j].results
              rs2 == job'[j].results
          IN  job[j].kind = "post"
              => /\ w2.att \in 0..MAX_ATTEMPTS
                 /\ (w2.att = 2 /\ w.att # 2) => (w.att = 1 /\ w.pc = "reload")
                 /\ (w2.pc = "reload" /\ w.pc # "reload")
                    => (w.att = 1 /\ w.pc \in {"chooser", "submit"} /\ rs2 = rs)
                 /\ (w.att = 2 /\ w.pc \in {"chooser", "submit"} /\ w2 # w
                        /\ ~job[j].stopRequested)
                    => \/ w2.pc \in {"submit", "comment"} /\ w2.att = 2 /\ rs2 = rs
                       \/ /\ w2.pc = "pause"
                          /\ rs2 = rs \o <<Outcome("attempt", w.i, FALSE),
                                            Outcome("group", w.i, FALSE)>>
                 /\ (w.pc = "pause" /\ w2 # w)
                    => /\ w2.u = w.u + 1
                       /\ w2.pc = IF w2.u < w.nu /\ ~job[j].stopRequested
                                  THEN "gotoUrl" ELSE "close"]_vars

\* A worker is going to the second url of its session after both attempts on
\* the first failed with an error, cancellation not requested.
C21_Witness ==
    \E j \in JobIds : \E k \in Workers(j) :
        /\ job[j].kind = "post" /\ ~job[j].stopRequested
        /\ wk[j][k].pc = "gotoUrl" /\ wk[j][k].u = 1
        /\ job[j].results = <<Outcome("attempt", wk[j][k].i, FALSE),
                               Outcome("group", wk[j][k].i, FALSE)>>

\* C22: in startPostAndComment, the step after the post was submitted appends
\* the record {post: true, comment} and the url's outcome with ok = true and
\* leaves the worker at the pause before the next url, with no further attempt
\* on this one; when the comment failed the record has comment = false.
C22_CommentFailureKeepsPost ==
    [][\A j \in JobIds, k \in WorkerIds :
          LET w == wk[j][k]
              w2 == wk'[j][k]
              rs == job[j].results
              rs2 == job'[j].results
              posted(c) == <<[Outcome("attempt", w.i, TRUE) EXCEPT !.comment = c],
                             Outcome("group", w.i, TRUE)>>
          IN  (job[j].kind = "post" /\ w.pc = "comment" /\ w2 # w)
              => /\ w2.pc = "pause" /\ w2.u = w.u /\ w2.att = w.att
                 /\ \E c \in BOOLEAN : rs2 = rs \o posted(c)
                 /\ PA_CommentWith(j, k, FALSE) => rs2 = rs \o posted(FALSE)]_vars

\* A worker is at the pause after a post whose comment failed while its browser
\* was running: the last two records are {post: true, comment: false} and the
\* url's outcome with ok = true.
C22_Witness ==
    \E j \in JobIds : \E k \in Workers(j) :
        LET w == wk[j][k]
            rs == job[j].results
        IN  /\ job[j].kind = "post" /\ w.pc = "pause" /\ br[j][w.i] = "open"
            /\ Len(rs) >= 2
            /\ rs[Len(rs) - 1] = Outcome("attempt", w.i, TRUE)
            /\ rs[Len(rs)] = Outcome("group", w.i, TRUE)

\* C23: in startJoinGroups, a link whose join control was found and clicked, be
\* it the first variant ("Gabung ke grup") or the second ("Join Group"), is
\* recorded in the session's results with ok = true.
C23_AnyVariantJoins ==
    [][\A j \in JobIds, k \in WorkerIds :
          LET w == wk[j][k]
              w2 == wk'[j][k]
          IN  (job[j].kind = "join" /\ Len(w2.acc) = Len(w.acc) + 1)
              => /\ w.pc = "probe" => w2.acc[Len(w2.acc)]
                 /\ JG_AltClickWith(j, k, TRUE) => w2.acc[Len(w2.acc)]]_vars

C25_SuccessNeedsMarker ==
    [][\A j \in JobIds :
          LET rs == job[j].results
              rs2 == job'[j].results
          IN  (/\ job[j].kind \in {"create", "create2"}
               /\ Len(rs2) = Len(rs) + 1
               /\ rs2[Len(rs2)].ok)
              => \E k \in Workers(j) :
                    /\ wk[j][k].pc \in {"probe", "login"}
                    /\ wk'[j][k] # wk[j][k]]_vars

\* C26: the browsers array of a registered job holds no browser twice and no
\* browser that has been closed, by its worker or by stopAll.  (A browser is
\* launched for one item of one job and pushed onto that job's array only, so it
\* is in no other job's array.)
C26_OwnedSetHasNoClosed ==
    \A j \in JOBS :
        /\ NoDup(job[j].browsers)
        /\ \A a \in 1..Len(job[j].browsers) : br[j][job[j].browsers[a]] # "closed"

\* C27: in every workflow and for every concurrency, no step makes a job's cursor
\* smaller; the cursor is at most the length of the input list; the indices
\* claimed so far are 0, 1, ..., cursor - 1 in this order; and of the workers of a
\* call with more workers than items, those beyond the number of items have
\* exited without an item.
C27_CursorMonotone ==
    [][\A j \in JobIds :
          /\ job'[j].index >= job[j].index
          /\ job'[j].index <= job'[j].n
          /\ job'[j].claimed = [a \in 1..job'[j].index |-> a - 1]
          /\ \A k \in 1..job'[j].conc :
                k > job'[j].n => (wk'[j][k].pc = "done" /\ wk'[j][k].i = 0)]_vars

\* A call with two workers and one item: the item is claimed and in progress,
\* the cursor is at the end of the list, and the second worker has exited.
C27_Witness ==
    \E j \in JobIds :
        /\ job[j].conc = 2 /\ job[j].n = 1 /\ job[j].index = 1
        /\ job[j].claimed = <<0>>
        /\ wk[j][1].pc = "newPage" /\ wk[j][2].pc = "done"

\* C28: while an orchestration call with concurrency C is under way, at most C of
\* the browsers its workers launched are open with no close tried on them.
C28_AtMostConcBrowsers ==
    \A j \in JobIds :
        job[j].call = "awaiting"
        => Cardinality({i \in ItemIdx : br[j][i] = "open"}) <= job[j].conc

\* The number of links item i of join job j has navigated or is navigating: those
\* its worker has recorded so far and the one it is at, or those of its outcome.
NavCount(j, i) ==
    LET ks == {k \in Workers(j) : Active(wk[j][k]) /\ wk[j][k].i = i}
        os == {x \in 1..Len(job[j].results) :
                  job[j].results[x].kind = "session" /\ job[j].results[x].i = i}
    IN  IF ks # {}
        THEN LET w == wk[j][CHOOSE k \in ks : TRUE]
             IN  IF w.pc \in {"goto", "probe", "altClick"} THEN Len(w.acc) + 1 ELSE Len(w.acc)
        ELSE IF os # {} THEN Len(job[j].results[CHOOSE x \in os : TRUE].groups)
        ELSE 0

\* The indices in groupLinks of those links.
Navigated(j, i) == {LinksOf(job[j], i)[a] : a \in 1..NavCount(j, i)}

\* C30: in startJoinGroups with groupsPerSession = k, a claimed session item
\* navigates at most k links, and no link is navigated by two session items.
C30_LinksNavigatedOnce ==
    \A j \in JobIds :
        job[j].kind = "join"
        => \A a \in 1..Len(job[j].claimed) :
              LET i == job[j].claimed[a]
              IN  /\ NavCount(j, i) <= job[j].gps
                  /\ \A b \in 1..Len(job[j].claimed) :
                        a # b => Navigated(j, i) \cap Navigated(j, job[j].claimed[b]) = {}

\* C29: for every input list and every concurrency of an orchestration call, no
\* two browsers of the call that are open at the same time were launched with the
\* same profile folder.
C29_OneBrowserPerProfile ==
    \A j \in JobIds : \A i1, i2 \in ItemIdx :
        (i1 # i2 /\ br[j][i1] = "open" /\ br[j][i2] = "open")
        => ProfileDir(job[j], i1) # ProfileDir(job[j], i2)

====
